---- MODULE Spec2Model ----
(***************************************************************************)
(* A model of src/main.py: the terrain-aware coverage computation          *)
(* (fetch_elevation, fresnel_zone_loss, detailed_los_with_diffraction,     *)
(* calculate_rsrp_with_enhanced_los, compute_coverage).                    *)
(*                                                                         *)
(* Floats are modelled in fixed point:                                     *)
(*   coordinates   micro-degrees (1e-6 deg); a rounded (5-decimal) cache   *)
(*                 key is a multiple of 10 micro-degrees                   *)
(*   lengths       centimetres (heights, elevations, path length) -- the   *)
(*                 radial distances of the grid are in metres              *)
(*   decibels      hundredths of a dB                                      *)
(*   angles        degrees (inputs), hundredths of a degree (atan2)        *)
(* log10, sin, cos and atan2 are fixed-point approximations of the library *)
(* functions the code calls.                                               *)
(***************************************************************************)
EXTENDS Integers, Sequences, FiniteSets, TLC

\* ------------------------------------------------------------------------
\* Bounds of the model
\* ------------------------------------------------------------------------
MaxRequests == 1
MaxCalls == 2
MaxPoints == 2

\* ------------------------------------------------------------------------
\* Arithmetic helpers
\* ------------------------------------------------------------------------
Abs(x) == IF x < 0 THEN -x ELSE x

Min(a, b) == IF a <= b THEN a ELSE b

Max(a, b) == IF a >= b THEN a ELSE b

\* a / b (b > 0) rounded to the nearest integer, ties to the even one, as
\* Python's round() does.
RoundDiv(a, b) ==
  LET q == a \div b
      r == a % b
  IN  IF 2 * r < b THEN q
      ELSE IF 2 * r > b THEN q + 1
      ELSE IF q % 2 = 0 THEN q ELSE q + 1

\* round(x, 5) of a coordinate in micro-degrees.
Round5(x) == 10 * RoundDiv(x, 10)

\* The cache key (round(lat, 5), round(lng, 5)) of a point <<lat, lng>>.
Key(pt) == <<Round5(pt[1]), Round5(pt[2])>>

RECURSIVE IsqrtIn(_, _, _)
IsqrtIn(n, lo, hi) ==
  IF lo >= hi THEN lo
  ELSE LET mid == (lo + hi + 1) \div 2
       IN  IF mid * mid <= n THEN IsqrtIn(n, mid, hi) ELSE IsqrtIn(n, lo, mid - 1)

\* floor(sqrt(n)) for 0 <= n < 2^31.
Isqrt(n) == IF n <= 0 THEN 0 ELSE IsqrtIn(n, 0, 46340)

\* 100 * log10 of the mantissas 1, 2, ..., 10.
LogTab == <<0, 30, 48, 60, 70, 78, 85, 90, 95, 100>>

RECURSIVE Log10Norm(_, _)
\* m: the argument scaled by 100, c: the characteristic found so far (x100).
Log10Norm(m, c) ==
  IF m >= 1000 THEN Log10Norm(m \div 10, c + 100)
  ELSE IF m < 100 THEN Log10Norm(m * 10, c - 100)
  ELSE LET k == m \div 100
       IN  c + LogTab[k] + ((LogTab[k + 1] - LogTab[k]) * (m - 100 * k)) \div 100

\* 100 * log10(x) for x = x100 / 100 > 0 (table and linear interpolation).
Log10x100(x100) == Log10Norm(x100, 0)

\* 1000 * sin(d degrees): Bhaskara's approximation on [0, 180].
Sin1000(d) ==
  LET a == d % 360
      h == IF a <= 180 THEN a ELSE a - 180
      v == (4000 * h * (180 - h)) \div (40500 - h * (180 - h))
  IN  IF a <= 180 THEN v ELSE -v

Cos1000(d) == Sin1000(d + 90)

\* atan(t / 1000) in hundredths of a degree, 0 <= t <= 1000.
AtanUnit(t) == (5730 * t) \div (1000 + (28 * t * t) \div 100000)

\* degrees(atan2(y, x)) in hundredths of a degree, for x > 0.
Atan2Deg100(y, x) ==
  LET ay == Abs(y)
      a  == IF ay <= x THEN AtanUnit((ay * 1000) \div x)
            ELSE 9000 - AtanUnit((x * 1000) \div ay)
  IN  IF y < 0 THEN -a ELSE a

\* Linspace with the samples taken one step too far (index 1..num).
LinspaceOffByOne(start, stop, num, i) ==
  IF num = 1 THEN start ELSE start + RoundDiv((i + 1) * (stop - start), num - 1)

\* np.linspace(start, stop, num)[i], i in 0..num-1.
Linspace(start, stop, num, i) ==
  IF num = 1 THEN start ELSE start + RoundDiv(i * (stop - start), num - 1)

\* The sequences without repetition that enumerate the set S.
Orders(S) ==
  {s \in [1..Cardinality(S) -> S] : \A i, j \in 1..Cardinality(S) : i # j => s[i] # s[j]}

\* The set of the elements of the sequence s.
Range(s) == {s[i] : i \in 1..Len(s)}

\* ------------------------------------------------------------------------
\* Program constants and the outside world
\* ------------------------------------------------------------------------
\* fetch_elevation's default parameters.
DefaultBatchSize == 300
max_retries == 2

\* tx_power of compute_coverage, in hundredths of a dBm.
tx_power == 4300

\* mobile_height of calculate_rsrp_with_enhanced_los, in centimetres.
mobile_height == 150

\* max_segments of detailed_los_with_diffraction.
max_segments == 200

\* The request threads sharing the process-wide cache.
Procs == {1, 2}

\* The terrains the external elevation source may describe (centimetres):
\* 0 is flat, 1 has a 50 m ridge about 10 m north of the origin, 2 is a slope
\* on which no two keys have the same elevation.
TerrainIds == {0, 1, 2}

\* The "elevation" field the external source answers for a rounded key.
SourceElev(t, k) ==
  IF t = 0 THEN 0
  ELSE IF t = 1 THEN (IF k[1] >= 50 /\ k[1] <= 150 /\ Abs(k[2]) <= 100 THEN 5000 ELSE 0)
  ELSE 700 + 10 * k[1] + 3 * k[2]

\* ------------------------------------------------------------------------
\* State
\* ------------------------------------------------------------------------
VARIABLES
  elevation_cache,  \* the process-wide dict: rounded key -> elevation
  terrain,          \* which terrain the external source describes
  pc,               \* per thread: where it is in compute_coverage / fetch_elevation
  caller,           \* per thread: who called fetch_elevation ("coverage" or "direct")
  fe,               \* per thread: the locals of fetch_elevation
  ret,              \* per thread: the list fetch_elevation returned last
  cc,               \* per thread: the locals of compute_coverage
  calls,            \* per thread: direct fetch_elevation calls made so far
  served,           \* per thread: compute_coverage requests started so far
  seen,             \* history: key -> the value an earlier fetch_elevation call returned for it
  touched,          \* history, per thread: another thread changed the cache since this one filled it
  probe             \* the last direct application of detailed_los_with_diffraction

vars == <<elevation_cache, terrain, pc, caller, fe, ret, cc, calls, served, seen, touched, probe>>

\* elevation_cache.get(k, 0)
CacheGet(cache, k) == IF k \in DOMAIN cache THEN cache[k] ELSE 0

EmptyCache == [k \in {} |-> 0]

NoFrame ==
  [points |-> <<>>, batch_size |-> 0, unique_points |-> <<>>, elevations |-> <<>>,
   uncached_points |-> <<>>, retries |-> 0, i |-> 0, sent |-> <<>>]

NoRequest ==
  [request |-> <<>>, grid_points |-> <<>>, coverage_data |-> <<>>]

\* ------------------------------------------------------------------------
\* fresnel_zone_loss
\* ------------------------------------------------------------------------
\* Lines 91-111, in hundredths of a dB; distance and height_diff in centimetres.
\* fresnel_radius^2 = (300 / f) * distance_km * 1000 / 2 m^2
\*                  = 15000 * distance_cm / f cm^2.
FresnelZoneLoss(distance_cm, height_diff, frequency) ==
  IF distance_cm <= 0 \/ frequency <= 0 THEN -14000
  ELSE LET fresnel_radius == Isqrt((15000 * distance_cm) \div frequency)
       IN  IF fresnel_radius <= 0 THEN -14000
           ELSE IF height_diff > fresnel_radius
             THEN -(20 * Log10x100((height_diff * 100) \div fresnel_radius))
           ELSE IF height_diff > 0
             THEN LET ratio1000 == (height_diff * 1000) \div fresnel_radius
                  IN  -((600 * ratio1000 * ratio1000) \div 1000000)
           ELSE 0

\* ------------------------------------------------------------------------
\* detailed_los_with_diffraction
\* ------------------------------------------------------------------------
\* sqrt((lat1 - lat2)^2 + (lng1 - lng2)^2) * 111 km, in centimetres
\* (one micro-degree is 11.1 cm), lines 117 and 154.
DistanceCm(a, b) ==
  (Isqrt((a[1] - b[1]) * (a[1] - b[1]) + (a[2] - b[2]) * (a[2] - b[2])) * 111) \div 10

\* Line 122: max(10, min(max_segments, int(distance_km * 100))).
NumSegments(distance_cm) == Max(10, Min(max_segments, distance_cm \div 1000))

\* Lines 130-132: the rounded key of the i-th of n intermediate positions.
IntermediateKey(site, point, i, n) ==
  <<10 * RoundDiv(site[1] * n + i * (point[1] - site[1]), 10 * n),
    10 * RoundDiv(site[2] * n + i * (point[2] - site[2]), 10 * n)>>

\* Lines 134-138: n * (intermediate_elevation - expected_height), which has the
\* sign of height_diff.
HeightDiffTimesN(cache, site, point, site_height, point_height, i, n) ==
  (CacheGet(cache, IntermediateKey(site, point, i, n)) - site_height) * n
    - (point_height - site_height) * i

\* height_diff in centimetres, rounded away from zero so that it keeps its sign.
HeightDiff(cache, site, point, site_height, point_height, i, n) ==
  LET x == HeightDiffTimesN(cache, site, point, site_height, point_height, i, n)
  IN  IF x > 0 THEN (x + n - 1) \div n ELSE -((-x) \div n)

\* Lines 139-142: what the i-th iteration adds to the accumulators.
LosStep(cache, site, point, site_height, point_height, frequency, i, n) ==
  LET height_diff == HeightDiff(cache, site, point, site_height, point_height, i, n)
  IN  IF height_diff > 0
      THEN [los_clear |-> FALSE,
            obstruction_loss |-> FresnelZoneLoss(DistanceCm(site, point), height_diff, frequency)]
      ELSE [los_clear |-> TRUE, obstruction_loss |-> 0]

RECURSIVE LosLoop(_, _, _, _, _, _, _, _, _)
\* Lines 126-142: the accumulators after the iterations lo..hi of the for loop
\* (los_clear starts TRUE and obstruction_loss 0). The range is split in halves
\* to keep the evaluation shallow; the sum and the conjunction are the loop's.
LosLoop(cache, site, point, site_height, point_height, frequency, lo, hi, n) ==
  IF lo > hi THEN [los_clear |-> TRUE, obstruction_loss |-> 0]
  ELSE IF lo = hi
    THEN LosStep(cache, site, point, site_height, point_height, frequency, lo, n)
  ELSE LET mid == (lo + hi) \div 2
           l == LosLoop(cache, site, point, site_height, point_height, frequency, lo, mid, n)
           r == LosLoop(cache, site, point, site_height, point_height, frequency, mid + 1, hi, n)
       IN  [los_clear |-> l.los_clear /\ r.los_clear,
            obstruction_loss |-> l.obstruction_loss + r.obstruction_loss]

\* NormalizedLoss without the sign change of line 144.
NormalizedLossSign(obstruction_loss, n) == Min(2000, obstruction_loss \div n)

\* Line 144: min(20, -obstruction_loss / num_segments).
NormalizedLoss(obstruction_loss, n) == Min(2000, (-obstruction_loss) \div n)

\* Lines 113-145. Returns (los_clear, normalized_loss).
DetailedLos(cache, site, point, site_height, point_height, frequency) ==
  LET distance_cm == DistanceCm(site, point)
      n == NumSegments(distance_cm)
      acc == LosLoop(cache, site, point, site_height, point_height, frequency, 1, n - 1, n)
  IN  IF distance_cm <= 0 THEN [clear |-> FALSE, penalty |-> 2000]
      ELSE [clear |-> acc.los_clear, penalty |-> NormalizedLoss(acc.obstruction_loss, n)]

\* ------------------------------------------------------------------------
\* calculate_rsrp_with_enhanced_los
\* ------------------------------------------------------------------------
\* Line 164: max(1, base_height + site_elevation), in centimetres.
SiteTotalHeight(base_height, site_elevation) == Max(100, base_height + site_elevation)

\* Lines 176-178: the vertical antenna-pattern gain; downtilt in degrees.
VerticalGain(site_total_height, point_total_height, distance_cm, downtilt) ==
  LET elevation_angle == Atan2Deg100(site_total_height - point_total_height, distance_cm)
      angle_diff == Abs(elevation_angle - 100 * downtilt)
  IN  IF angle_diff > 300 THEN -((3 * (angle_diff - 300) * (angle_diff - 300)) \div 200) ELSE 0

\* Lines 184-189: COST-231 Hata path loss.
PathLoss(frequency, site_total_height, distance_cm) ==
  LET lf == Log10x100(frequency * 100)
      lh == Log10x100(site_total_height)
      ld == Log10x100(distance_cm) - 300
  IN  4630 + (339 * lf) \div 10 - (1382 * lh) \div 100
        + ((4490 - (655 * lh) \div 100) * ld) \div 100

\* Line 192.
Shadowing(environment) ==
  IF environment = "urban" THEN 200
  ELSE IF environment = "suburban" THEN 150
  ELSE IF environment = "rural" THEN 100
  ELSE 0

\* Clamp without the upper limit of line 196.
ClampFloorOnly(rsrp) == Max(-14000, rsrp)

\* Line 196: max(-140, min(rsrp, -30)).
Clamp(rsrp) == Max(-14000, Min(rsrp, -3000))

\* Lines 147-196. Returns the rsrp, or raises (math.log10 of a frequency <= 0 is
\* a ValueError); path names the return statement taken.
CalculateRsrp(cache, site, point, frequency, base_height, downtilt, environment) ==
  LET distance_cm == DistanceCm(site, point)
      site_total_height == SiteTotalHeight(base_height, CacheGet(cache, Key(site)))
      point_total_height == mobile_height + CacheGet(cache, Key(point))
      los == DetailedLos(cache, site, point, site_total_height, point_total_height, frequency)
  IN  IF distance_cm <= 0
        THEN [raised |-> FALSE, rsrp |-> -14000, path |-> "zero_distance"]
      ELSE IF ~los.clear
        THEN [raised |-> FALSE, rsrp |-> -14000 + los.penalty, path |-> "blocked"]
      ELSE IF base_height <= 0
        THEN [raised |-> FALSE, rsrp |-> -14000, path |-> "invalid"]
      ELSE IF frequency <= 0
        THEN [raised |-> TRUE, rsrp |-> 0, path |-> "log10"]
      ELSE [raised |-> FALSE,
            rsrp |-> Clamp(tx_power - PathLoss(frequency, site_total_height, distance_cm)
                           + VerticalGain(site_total_height, point_total_height,
                                          distance_cm, downtilt)
                           - Shadowing(environment)),
            path |-> "clear"]

\* ------------------------------------------------------------------------
\* fetch_elevation
\* ------------------------------------------------------------------------
\* [cache[k] for k in u if k in cache], lines 49-51.
CachedElevations(u, cache) ==
  LET c == SelectSeq(u, LAMBDA k : k \in DOMAIN cache)
  IN  [j \in 1..Len(c) |-> cache[c[j]]]

\* [k for k in u if k not in cache], lines 52-53 and 82.
Uncached(u, cache) == SelectSeq(u, LAMBDA k : k \notin DOMAIN cache)

\* Lines 45-55: deduplicate by rounded key (in the iteration order of a Python
\* set, which the code does not control), split into cached and uncached.
FetchBegin(p) ==
  /\ pc[p] = "begin"
  /\ \E u \in Orders({Key(pt) : pt \in Range(fe[p].points)}) :
       fe' = [fe EXCEPT ![p].unique_points = u,
                        ![p].elevations = CachedElevations(u, elevation_cache),
                        ![p].uncached_points = Uncached(u, elevation_cache),
                        ![p].retries = 0]
  /\ pc' = [pc EXCEPT ![p] = "loop"]
  /\ UNCHANGED <<elevation_cache, terrain, caller, ret, cc, calls, served, seen, touched, probe>>

\* Line 56-57: the while test, and the start of a round.
FetchLoop(p) ==
  /\ pc[p] = "loop"
  /\ IF fe[p].uncached_points # <<>> /\ fe[p].retries < max_retries
     THEN /\ fe' = [fe EXCEPT ![p].retries = @ + 1, ![p].i = 0, ![p].sent = <<>>]
          /\ pc' = [pc EXCEPT ![p] = "batch"]
     ELSE /\ pc' = [pc EXCEPT ![p] = "lookup"]
          /\ UNCHANGED fe
  /\ UNCHANGED <<elevation_cache, terrain, caller, ret, cc, calls, served, seen, touched, probe>>

\* uncached_points[i:i + batch_size], line 61.
CurrentBatch(f) ==
  SubSeq(f.uncached_points, f.i + 1, Min(f.i + f.batch_size, Len(f.uncached_points)))

\* The for statement of line 60 moves to the next batch, or the round ends.
AfterBatch(p, f) ==
  pc' = [pc EXCEPT ![p] = IF f.i + f.batch_size >= Len(f.uncached_points)
                          THEN "filter" ELSE "batch"]

\* The cache after lines 71-73 stored the batch's elevations.
StoreBatch(cache, batch, t) ==
  [k \in DOMAIN cache \cup Range(batch) |->
     IF k \in Range(batch) THEN SourceElev(t, k) ELSE cache[k]]

\* A thread that computes on the cache it filled loses that when another thread
\* changes the cache to the given one.
TouchOthers(p, cache) ==
  [q \in Procs |->
     IF q # p /\ pc[q] = "compute" /\ cache # elevation_cache THEN TRUE ELSE touched[q]]

\* Lines 66-74: the lookup succeeds with one result per point of the batch.
BatchOk(p) ==
  /\ pc[p] = "batch"
  /\ LET f == fe[p]
         batch == CurrentBatch(f)
     IN  /\ elevation_cache' = StoreBatch(elevation_cache, batch, terrain)
         /\ fe' = [fe EXCEPT ![p].elevations =
                               @ \o [j \in 1..Len(batch) |-> SourceElev(terrain, batch[j])],
                             ![p].i = @ + f.batch_size,
                             ![p].sent = @ \o batch]
         /\ AfterBatch(p, f)
  /\ touched' = TouchOthers(p, StoreBatch(elevation_cache, CurrentBatch(fe[p]), terrain))
  /\ UNCHANGED <<terrain, caller, ret, cc, calls, served, seen, probe>>

\* The batch gets the placeholder 0 for each of its points, lines 77 and 80.
BatchDefault(p) ==
  /\ LET f == fe[p]
         batch == CurrentBatch(f)
     IN  /\ fe' = [fe EXCEPT ![p].elevations = @ \o [j \in 1..Len(batch) |-> 0],
                             ![p].i = @ + f.batch_size,
                             ![p].sent = @ \o batch]
         /\ AfterBatch(p, f)
  /\ UNCHANGED <<elevation_cache, terrain, caller, ret, cc, calls, served, seen, touched, probe>>

\* Lines 70, 75-77: the response has no "results" or the wrong number of them.
BatchIncomplete(p) == pc[p] = "batch" /\ BatchDefault(p)

\* Lines 66-67, 78-80: the request raises a RequestException.
BatchError(p) == pc[p] = "batch" /\ BatchDefault(p)

\* Lines 82-84: drop the points now cached; the round is over.
FetchFilter(p) ==
  /\ pc[p] = "filter"
  /\ LET left == Uncached(fe[p].uncached_points, elevation_cache)
     IN  /\ fe' = [fe EXCEPT ![p].uncached_points = left]
         /\ pc' = [pc EXCEPT ![p] = IF left # <<>> THEN "sleep" ELSE "loop"]
  /\ UNCHANGED <<elevation_cache, terrain, caller, ret, cc, calls, served, seen, touched, probe>>

\* Lines 85-86: time.sleep(retry_delay).
FetchSleep(p) ==
  /\ pc[p] = "sleep"
  /\ pc' = [pc EXCEPT ![p] = "loop"]
  /\ UNCHANGED <<elevation_cache, terrain, caller, fe, ret, cc, calls, served, seen, touched, probe>>

\* dict(zip(unique_points, elevations)), line 88: a function on the keys zipped.
ElevationLookup(u, e) ==
  LET n == Min(Len(u), Len(e))
  IN  [k \in {u[j] : j \in 1..n} |-> e[CHOOSE j \in 1..n : u[j] = k]]

\* Line 89: one value per input point, by its rounded key, default 0.
FetchResult(f) ==
  LET lookup == ElevationLookup(f.unique_points, f.elevations)
  IN  [j \in 1..Len(f.points) |-> CacheGet(lookup, Key(f.points[j]))]

\* The history of returned values: the first value returned for each key.
Remember(s, f, r) ==
  [k \in DOMAIN s \cup {Key(f.points[j]) : j \in 1..Len(f.points)} |->
     IF k \in DOMAIN s THEN s[k]
     ELSE r[CHOOSE j \in 1..Len(f.points) : Key(f.points[j]) = k]]

\* Lines 88-89: fetch_elevation returns to its caller; its locals are gone
\* (the caller still has the argument).
FetchReturn(p) ==
  /\ pc[p] = "lookup"
  /\ ret' = [ret EXCEPT ![p] = FetchResult(fe[p])]
  /\ fe' = [fe EXCEPT ![p] = [NoFrame EXCEPT !.points = fe[p].points]]
  /\ pc' = [pc EXCEPT ![p] = IF caller[p] = "coverage" THEN "populate" ELSE "returned"]
  /\ UNCHANGED <<elevation_cache, terrain, caller, cc, calls, served, seen, touched, probe>>

\* ------------------------------------------------------------------------
\* Direct use of fetch_elevation: calls with no cache reset in between
\* ------------------------------------------------------------------------
\* Unrounded coordinates; the first two round to the same key.
RawPoints == {<<0, 0>>, <<3, -4>>, <<12, 0>>, <<20, 8>>}

PointLists == UNION {[1..n -> RawPoints] : n \in 1..MaxPoints}

BatchSizes == {1, DefaultBatchSize}

\* fetch_elevation(points, batch_size) is called; its frame is created.
FetchCall(p) ==
  /\ pc[p] = "idle"
  /\ calls[p] < MaxCalls
  /\ \E pts \in PointLists, bs \in BatchSizes :
       fe' = [fe EXCEPT ![p] = [NoFrame EXCEPT !.points = pts, !.batch_size = bs]]
  /\ pc' = [pc EXCEPT ![p] = "begin"]
  /\ caller' = [caller EXCEPT ![p] = "direct"]
  /\ calls' = [calls EXCEPT ![p] = @ + 1]
  /\ UNCHANGED <<elevation_cache, terrain, ret, cc, served, seen, touched, probe>>

\* The caller has the returned list; the values it got are remembered.
FetchDone(p) ==
  /\ pc[p] = "returned"
  /\ seen' = Remember(seen, fe[p], ret[p])
  /\ fe' = [fe EXCEPT ![p] = NoFrame]
  /\ ret' = [ret EXCEPT ![p] = <<>>]
  /\ pc' = [pc EXCEPT ![p] = "idle"]
  /\ UNCHANGED <<elevation_cache, terrain, caller, cc, calls, served, touched, probe>>

\* ------------------------------------------------------------------------
\* compute_coverage
\* ------------------------------------------------------------------------
\* The start of np.linspace(0.01, radius, resolution), line 226, in metres.
MinRadius == 10

\* Lines 224-228: the (r, angle) pairs of the comprehension, r outermost;
\* r in metres, angle in degrees.
GridPolar(req) ==
  LET n == req.resolution
  IN  [j \in 1..(n * n) |->
         <<Linspace(MinRadius, req.radius, n, (j - 1) \div n),
           Linspace(req.azimuth - req.beamwidth \div 2,
                    req.azimuth + req.beamwidth \div 2, n, (j - 1) % n)>>]

\* Line 225: (site_lat + (r / 111) * cos(angle), site_lng + (r / 111) * sin(angle));
\* a metre is 1000 / 111 micro-degrees.
GridPoint(site, ra) ==
  <<site[1] + RoundDiv(ra[1] * Cos1000(ra[2]), 111),
    site[2] + RoundDiv(ra[1] * Sin1000(ra[2]), 111)>>

GridPoints(req) ==
  LET polar == GridPolar(req)
  IN  [j \in 1..Len(polar) |-> GridPoint(req.site, polar[j])]

BaseRequest ==
  [site |-> <<0, 0>>, frequency |-> 900, antenna_height |-> 3000, downtilt |-> 0,
   environment |-> "rural", azimuth |-> 0, beamwidth |-> 0, resolution |-> 2,
   radius |-> 1000]

\* Requests that vary the radio parameters on a two-ring grid of one bearing.
RadioRequests ==
  {[BaseRequest EXCEPT !.frequency = f, !.antenna_height = h, !.downtilt = d,
                       !.environment = e] :
     f \in {0, 900}, h \in {0, 3000}, d \in {0, 10, 71},
     e \in {"urban", "suburban", "rural", "other"}}

\* Requests that vary the geometry of the grid.
GeometryRequests ==
  {[BaseRequest EXCEPT !.azimuth = az, !.beamwidth = bw, !.resolution = n, !.radius = r] :
     az \in {0, 90}, bw \in {-60, 0, 60}, n \in {1, 2}, r \in {0, 5, 1000}}

Requests == RadioRequests \cup GeometryRequests

\* Lines 236-237: the cache after the loop wrote each grid point's elevation.
PopulateCache(cache, grid_points, point_elevations) ==
  LET n == Min(Len(grid_points), Len(point_elevations))
      keys == {Key(grid_points[j]) : j \in 1..n}
  IN  [k \in DOMAIN cache \cup keys |->
         IF k \in keys
         THEN LET last == CHOOSE j \in 1..n :
                            /\ Key(grid_points[j]) = k
                            /\ \A m \in (j + 1)..n : Key(grid_points[m]) # k
              IN  point_elevations[last]
         ELSE cache[k]]

\* Lines 203-231: the cache is cleared, the grid generated and fetch_elevation
\* called on [site] + grid_points with its default parameters.
Request(p, req) ==
  /\ pc[p] = "idle"
  /\ served[p] < MaxRequests
  /\ elevation_cache' = EmptyCache
  /\ cc' = [cc EXCEPT ![p] = [request |-> req, grid_points |-> GridPoints(req),
                              coverage_data |-> <<>>]]
  /\ fe' = [fe EXCEPT ![p] = [NoFrame EXCEPT !.points = <<req.site>> \o GridPoints(req),
                                             !.batch_size = DefaultBatchSize]]
  /\ caller' = [caller EXCEPT ![p] = "coverage"]
  /\ served' = [served EXCEPT ![p] = @ + 1]
  /\ touched' = TouchOthers(p, EmptyCache)
  /\ pc' = [pc EXCEPT ![p] = "begin"]
  /\ UNCHANGED <<terrain, ret, calls, seen, probe>>

\* PointElevations without dropping the site's elevation.
PointElevationsWithSite(elevations) == elevations

\* elevations[1:], line 233.
PointElevations(elevations) == SubSeq(elevations, 2, Len(elevations))

\* Lines 232-237: split the returned list, write the grid points' elevations
\* to the cache.
Populate(p) ==
  /\ pc[p] = "populate"
  /\ LET cache == PopulateCache(elevation_cache, cc[p].grid_points, PointElevations(ret[p]))
     IN  /\ elevation_cache' = cache
         /\ touched' = [TouchOthers(p, cache) EXCEPT ![p] = FALSE]
  /\ pc' = [pc EXCEPT ![p] = "compute"]
  /\ UNCHANGED <<terrain, caller, fe, ret, cc, calls, served, seen, probe>>

\* Lines 241-253: one iteration of the RSRP loop. The sample also records the
\* return path taken and the point elevation read from the cache.
Compute(p) ==
  /\ pc[p] = "compute"
  /\ LET c == cc[p]
         req == c.request
         k == Len(c.coverage_data) + 1
         point == c.grid_points[k]
         r == CalculateRsrp(elevation_cache, req.site, point, req.frequency,
                            req.antenna_height, req.downtilt, req.environment)
     IN  IF r.raised
         THEN /\ pc' = [pc EXCEPT ![p] = "raised"]
              /\ UNCHANGED cc
         ELSE /\ cc' = [cc EXCEPT ![p].coverage_data =
                          Append(@, [lat |-> point[1], lng |-> point[2], rsrp |-> r.rsrp,
                                     path |-> r.path,
                                     elevation |-> CacheGet(elevation_cache, Key(point))])]
              /\ pc' = [pc EXCEPT ![p] = IF k = Len(c.grid_points) THEN "done" ELSE "compute"]
  /\ UNCHANGED <<elevation_cache, terrain, caller, fe, ret, calls, served, seen, touched, probe>>

\* Line 255: coverage_data is returned, or the exception leaves the handler;
\* the locals are gone and the thread is free again.
Respond(p) ==
  /\ pc[p] \in {"done", "raised"}
  /\ pc' = [pc EXCEPT ![p] = "idle"]
  /\ cc' = [cc EXCEPT ![p] = NoRequest]
  /\ fe' = [fe EXCEPT ![p] = NoFrame]
  /\ ret' = [ret EXCEPT ![p] = <<>>]
  /\ touched' = [touched EXCEPT ![p] = FALSE]
  /\ UNCHANGED <<elevation_cache, terrain, caller, calls, served, seen, probe>>

\* ------------------------------------------------------------------------
\* Direct use of detailed_los_with_diffraction
\* ------------------------------------------------------------------------
\* Keys on or near the paths probed, and the elevations a cache may hold there.
ProbeKeys == {<<90, 0>>, <<4460, 0>>, <<0, 90>>}

ProbeElevations == {1000, 5000}

ProbeCaches ==
  UNION {[K -> ProbeElevations] : K \in SUBSET ProbeKeys}

ProbePoints == {<<0, 0>>, <<900, 0>>, <<9009, 0>>, <<0, 180>>}

\* detailed_los_with_diffraction is applied to the current cache.
LosProbe ==
  /\ probe = <<>>
  /\ \E point \in ProbePoints, site_height \in {100, 3000},
        point_height \in {-850, 150, 5150}, frequency \in {0, 900} :
       probe' = [site |-> <<0, 0>>, point |-> point, site_height |-> site_height,
                 point_height |-> point_height, frequency |-> frequency,
                 result |-> DetailedLos(elevation_cache, <<0, 0>>, point, site_height,
                                        point_height, frequency)]
  /\ UNCHANGED <<elevation_cache, terrain, pc, caller, fe, ret, cc, calls, served, seen, touched>>

Init ==
  /\ elevation_cache = EmptyCache
  /\ terrain \in TerrainIds
  /\ pc = [p \in Procs |-> "idle"]
  /\ caller = [p \in Procs |-> "none"]
  /\ fe = [p \in Procs |-> NoFrame]
  /\ ret = [p \in Procs |-> <<>>]
  /\ cc = [p \in Procs |-> NoRequest]
  /\ calls = [p \in Procs |-> 0]
  /\ served = [p \in Procs |-> 0]
  /\ seen = EmptyCache
  /\ touched = [p \in Procs |-> FALSE]
  /\ probe = <<>>

FetchSteps(p) ==
  \/ FetchBegin(p)
  \/ FetchLoop(p)
  \/ BatchOk(p)
  \/ BatchIncomplete(p)
  \/ BatchError(p)
  \/ FetchFilter(p)
  \/ FetchSleep(p)
  \/ FetchReturn(p)

CoverageSteps(p) == Populate(p) \/ Compute(p) \/ Respond(p)

\* One thread calls fetch_elevation up to MaxCalls times on the same cache.
NextFetch == FetchCall(1) \/ FetchSteps(1) \/ FetchDone(1)

SpecFetch == Init /\ [][NextFetch]_vars

\* Requests are served one at a time, as the code is written to run.
Next == (\E req \in Requests : Request(1, req)) \/ FetchSteps(1) \/ CoverageSteps(1)

Spec == Init /\ [][Next]_vars

\* Requests two threads serve at the same time on the one cache.
ConcRequests == {[BaseRequest EXCEPT !.resolution = 1]}

NextConc ==
  \E p \in Procs :
    (\E req \in ConcRequests : Request(p, req)) \/ FetchSteps(p) \/ CoverageSteps(p)

SpecConc == Init /\ [][NextConc]_vars

\* detailed_los_with_diffraction on any of the caches of ProbeCaches.
InitLos ==
  /\ elevation_cache \in ProbeCaches
  /\ terrain = 0
  /\ pc = [p \in Procs |-> "idle"]
  /\ caller = [p \in Procs |-> "none"]
  /\ fe = [p \in Procs |-> NoFrame]
  /\ ret = [p \in Procs |-> <<>>]
  /\ cc = [p \in Procs |-> NoRequest]
  /\ calls = [p \in Procs |-> 0]
  /\ served = [p \in Procs |-> 0]
  /\ seen = EmptyCache
  /\ touched = [p \in Procs |-> FALSE]
  /\ probe = <<>>

NextLos == LosProbe

SpecLos == InitLos /\ [][NextLos]_vars

\* ------------------------------------------------------------------------
\* Properties
\* ------------------------------------------------------------------------
\* The samples thread p has computed for its current request.
Samples(p) == {cc[p].coverage_data[k] : k \in 1..Len(cc[p].coverage_data)}

\* C1: every coverage sample has rsrp in [-140, -30] dBm, whichever return
\* statement of calculate_rsrp_with_enhanced_los produced it.
RsrpInRange ==
  \A p \in Procs : \A s \in Samples(p) : s.rsrp >= -14000 /\ s.rsrp <= -3000

\* C1, its case: a sample of a blocked path, -140 plus a positive penalty.
RsrpBlockedSample ==
  \E s \in Samples(1) : s.path = "blocked" /\ s.rsrp > -14000

\* C2: fetch_elevation returns one value per input point, and the value at
\* position j is the elevation of the rounded coordinate of points[j] (or the
\* placeholder 0), never the elevation of another coordinate.
FetchReturnsOwnElevation ==
  \A p \in Procs :
    pc[p] = "returned" =>
      /\ Len(ret[p]) = Len(fe[p].points)
      /\ \A j \in 1..Len(ret[p]) :
           ret[p][j] \in {SourceElev(terrain, Key(fe[p].points[j])), 0}

\* C3: fetch_elevation returns the placeholder 0 only for a point still missing
\* after the last round: a point whose lookup succeeded in some round gets the
\* elevation the source gave.
PlaceholderOnlyIfMissing ==
  \A p \in Procs :
    pc[p] = "returned" =>
      \A j \in 1..Len(ret[p]) :
        LET k == Key(fe[p].points[j])
        IN  (k \in DOMAIN elevation_cache /\ SourceElev(terrain, k) # 0) => ret[p][j] # 0

\* C4: between the clear() that starts a request and its return, a key present
\* in elevation_cache keeps its value.
CacheNeverOverwritten ==
  [][ \/ \E p \in Procs : pc[p] = "idle" /\ pc'[p] = "begin"
      \/ \A k \in DOMAIN elevation_cache :
           k \in DOMAIN elevation_cache' /\ elevation_cache'[k] = elevation_cache[k] ]_vars

\* C5: compute_coverage raises no error, whatever the request and whatever the
\* elevation lookups did.
NeverRaises == \A p \in Procs : pc[p] # "raised"

\* No key occurs twice in the sequence s.
NoRepeat(s) == \A i, j \in 1..Len(s) : i # j => s[i] # s[j]

\* C6: a rounded coordinate requested twice with no cache reset in between gets
\* the same value both times (within one call and across calls), a key already
\* cached is never put in a batch, and within one round each uncached key is
\* in exactly one batch.
SameValueNoSecondLookup ==
  \A p \in Procs :
    /\ pc[p] = "returned" =>
         \A i, j \in 1..Len(ret[p]) :
           /\ Key(fe[p].points[i]) = Key(fe[p].points[j]) => ret[p][i] = ret[p][j]
           /\ Key(fe[p].points[j]) \in DOMAIN seen => ret[p][j] = seen[Key(fe[p].points[j])]
    /\ pc[p] = "batch" => Range(CurrentBatch(fe[p])) \cap DOMAIN elevation_cache = {}
    /\ pc[p] \in {"batch", "filter"} => NoRepeat(fe[p].sent)
    /\ pc[p] = "filter" => Range(fe[p].sent) = Range(fe[p].uncached_points)

\* The resolution is at least 1, the radius at least the 0.01 km the radial
\* samples start at, and the beamwidth is not negative.
GridRequestInDomain(req) ==
  req.resolution >= 1 /\ req.radius >= MinRadius /\ req.beamwidth >= 0

\* The grid of req has resolution^2 points, each at a radial distance in
\* (0, radius] and at a bearing within the beam; the projected position is at
\* that distance from the site, up to the rounding of the projection (1 % and
\* 25 cm).
GridWithinSector(req, grid_points) ==
  LET polar == GridPolar(req)
  IN  /\ Len(grid_points) = req.resolution * req.resolution
      /\ \A j \in 1..Len(grid_points) :
           /\ polar[j][1] > 0 /\ polar[j][1] <= req.radius
           /\ polar[j][2] >= req.azimuth - req.beamwidth \div 2
           /\ polar[j][2] <= req.azimuth + req.beamwidth \div 2
           /\ DistanceCm(req.site, grid_points[j]) > 0
           /\ DistanceCm(req.site, grid_points[j]) <= 101 * req.radius + 25

ProbeObstructed ==
  LET n == NumSegments(DistanceCm(probe.site, probe.point))
  IN  \E i \in 1..(n - 1) :
        CacheGet(elevation_cache, IntermediateKey(probe.site, probe.point, i, n)) * n
          > probe.site_height * n + (probe.point_height - probe.site_height) * i

\* C8: on a path of positive length detailed_los_with_diffraction reports
\* clear = FALSE exactly when some intermediate sample is above the line, with
\* a penalty in [0, 20] dB; on a path of zero length it returns (FALSE, 20).
LosClearIffUnobstructed ==
  probe # <<>> =>
    IF DistanceCm(probe.site, probe.point) <= 0
    THEN probe.result = [clear |-> FALSE, penalty |-> 2000]
    ELSE /\ probe.result.clear = ~ProbeObstructed
         /\ probe.result.penalty >= 0
         /\ probe.result.penalty <= 2000

\* C8, its case: a path of positive length found blocked, with a penalty.
LosBlockedProbe ==
  /\ probe # <<>>
  /\ DistanceCm(probe.site, probe.point) > 0
  /\ ~probe.result.clear
  /\ probe.result.penalty > 0

\* Sample k of thread p was computed from a point elevation other than the one
\* the thread's own fetch_elevation call returned for that point.
ForeignElevation(p, k) == cc[p].coverage_data[k].elevation # ret[p][k + 1]

\* C9: a request computes an RSRP from an elevation other than the one its own
\* fetch_elevation call returned only if another request changed the shared
\* cache meanwhile; with two requests at a time this does happen (the witness).
ForeignElevationOnlyByInterference ==
  \A p \in Procs :
    \A k \in 1..Len(cc[p].coverage_data) : ForeignElevation(p, k) => touched[p]

\* C9, its case: the other request's clear() or write changed what this one reads.
InterferenceHappens ==
  \E p \in Procs :
    \E k \in 1..Len(cc[p].coverage_data) : ForeignElevation(p, k) /\ touched[p]

\* C10: a delay is only spent between two rounds: whenever fetch_elevation
\* sleeps another round is still permitted, and no more than max_retries rounds
\* are run.
DelayOnlyBetweenRounds ==
  \A p \in Procs :
    /\ fe[p].retries <= max_retries
    /\ pc[p] = "sleep" => fe[p].retries < max_retries

====
